---- MODULE Spec2Model ----
(***************************************************************************)
(* Model of 02_update_media_metadata.py: MediaProcessor.                    *)
(*                                                                         *)
(* Paths are strings.  A work tree is a set of media files, a set of        *)
(* sidecar (.json) files with their content, and the condition of each      *)
(* media file (what the operating system answers when the file is           *)
(* rewritten, re-dated or probed).  Timestamps are symbolic.                *)
(***************************************************************************)
EXTENDS Naturals, Sequences, FiniteSets, TLC

(***************************************************************************)
(* Python str and pathlib.PurePosixPath operations used by the program.     *)
(***************************************************************************)

\* s[i] as a one-character string
CharAt(s, i) == SubSeq(s, i, i)

\* s.startswith(t, i - 1): t occurs in s at position i (1-based)
OccursAt(s, t, i) == i + Len(t) - 1 <= Len(s) /\ SubSeq(s, i, i + Len(t) - 1) = t

\* str.replace(old, new) for a non-empty old: every non-overlapping occurrence,
\* scanning from the left
RECURSIVE ReplaceFrom(_, _, _, _)
ReplaceFrom(s, old, new, i) ==
    IF i > Len(s) THEN ""
    ELSE IF OccursAt(s, old, i) THEN new \o ReplaceFrom(s, old, new, i + Len(old))
    ELSE CharAt(s, i) \o ReplaceFrom(s, old, new, i + 1)

\* str.replace(old, new); with old = '' and new = '' the string is returned as is
StrReplace(s, old, new) == IF old = "" THEN s ELSE ReplaceFrom(s, old, new, 1)

\* s.find(ch) + 1: position of the first ch in s, 0 if none
FirstIndex(s, ch) ==
    LET hits == {i \in 1..Len(s) : CharAt(s, i) = ch}
    IN  IF hits = {} THEN 0 ELSE CHOOSE i \in hits : \A j \in hits : i <= j

\* s.rfind(ch) + 1: position of the last ch in s, 0 if none
LastIndex(s, ch) ==
    LET hits == {i \in 1..Len(s) : CharAt(s, i) = ch}
    IN  IF hits = {} THEN 0 ELSE CHOOSE i \in hits : \A j \in hits : i >= j

\* s.split(ch)[0]
SplitFirst(s, ch) ==
    LET i == FirstIndex(s, ch) IN IF i = 0 THEN s ELSE SubSeq(s, 1, i - 1)

\* s[:-k] for k >= 1
DropLast(s, k) == IF Len(s) > k THEN SubSeq(s, 1, Len(s) - k) ELSE ""

LowerAlphabet == "abcdefghijklmnopqrstuvwxyz"
UpperAlphabet == "ABCDEFGHIJKLMNOPQRSTUVWXYZ"

\* one character mapped from the alphabet `from` to the alphabet `to`
MapChar(c, from, to) ==
    LET i == FirstIndex(from, c) IN IF i = 0 THEN c ELSE CharAt(to, i)

RECURSIVE MapStr(_, _, _)
MapStr(s, from, to) ==
    IF s = "" THEN "" ELSE MapChar(CharAt(s, 1), from, to) \o MapStr(Tail(s), from, to)

\* str.upper() and str.lower() (ASCII letters; the other characters are kept)
Upper(s) == MapStr(s, LowerAlphabet, UpperAlphabet)
Lower(s) == MapStr(s, UpperAlphabet, LowerAlphabet)

\* PurePath.name: the last component
PathName(p) == SubSeq(p, LastIndex(p, "/") + 1, Len(p))

\* str(PurePath.parent) of a relative path: "." when there is no directory part
PathParent(p) ==
    LET i == LastIndex(p, "/") IN IF i = 0 THEN "." ELSE SubSeq(p, 1, i - 1)

\* PurePath.suffix: from the last dot of the name, unless that dot starts or
\* ends the name
PathSuffix(p) ==
    LET name == PathName(p)
        i    == LastIndex(name, ".")
    IN  IF 1 < i /\ i < Len(name) THEN SubSeq(name, i, Len(name)) ELSE ""

\* PurePath.stem
PathStem(p) ==
    LET name == PathName(p)
        i    == LastIndex(name, ".")
    IN  IF 1 < i /\ i < Len(name) THEN SubSeq(name, 1, i - 1) ELSE name

\* str(parent / name)
PathJoin(parent, name) == IF parent = "." THEN name ELSE parent \o "/" \o name

\* whether directory d is a proper ancestor of directory e
IsAncestorDir(d, e) == Len(d) < Len(e) /\ SubSeq(e, 1, Len(d) + 1) = d \o "/"

(***************************************************************************)
(* Supported formats.                                                       *)
(***************************************************************************)
IMAGE_FORMATS == {".jpg", ".jpeg", ".png", ".heic", ".gif", ".bmp", ".tiff", ".tif", ".webp"}
VIDEO_FORMATS == {".mp4", ".mov", ".avi", ".mkv", ".m4v"}
ALL_FORMATS == {Lower(ext) : ext \in IMAGE_FORMATS \cup VIDEO_FORMATS}

(***************************************************************************)
(* find_json_file.get_potential_json_names, group by group.                 *)
(***************************************************************************)

\* "Standard cases": image.jpg.json, image.json
StandardNames(base_path) ==
    << base_path \o ".json",
       StrReplace(base_path, PathSuffix(base_path), "") \o ".json" >>

\* str(base_path.parent / base_path.stem).split('(')[0]
StemBeforeParen(base_path) ==
    SplitFirst(PathJoin(PathParent(base_path), PathStem(base_path)), "(")

\* LivePhotoNames with the .JPG still tried before the .HEIC still
LivePhotoNames_JpgFirst(base_path) ==
    IF Upper(PathSuffix(base_path)) = ".MP4"
    THEN << StrReplace(base_path, PathSuffix(base_path), ".JPG") \o ".json",
            StrReplace(base_path, PathSuffix(base_path), ".HEIC") \o ".json",
            StemBeforeParen(base_path) \o ".JPG.json",
            StemBeforeParen(base_path) \o ".HEIC.json" >>
    ELSE << >>

\* "Case: LivePhotos iOS", only for a suffix that upper-cases to .MP4
LivePhotoNames(base_path) ==
    IF Upper(PathSuffix(base_path)) = ".MP4"
    THEN << StrReplace(base_path, PathSuffix(base_path), ".HEIC") \o ".json",
            StrReplace(base_path, PathSuffix(base_path), ".JPG") \o ".json",
            StemBeforeParen(base_path) \o ".HEIC.json",
            StemBeforeParen(base_path) \o ".JPG.json" >>
    ELSE << >>

\* "Case: duplicated files (x)"
DuplicateNames(base_path) ==
    << StemBeforeParen(base_path) \o PathSuffix(base_path) \o ".json" >>

\* "Case: JSON without -modified suffix"
EditedNames(base_path) ==
    << StrReplace(base_path, "-modifié", "") \o ".json",
       StrReplace(base_path, "-modified", "") \o ".json" >>

\* "Limit 8 attempts"
TruncationAttempts == 8

\* TruncatedNames with the shortest name tried first
TruncatedNames_ShortestFirst(base_path) ==
    [i \in 1..TruncationAttempts |->
        DropLast(base_path, TruncationAttempts + 1 - i) \o ".json"]

\* "Case: truncated filename": full_name[:-(i+1)] for i in range(8)
TruncatedNames(base_path) ==
    [i \in 1..TruncationAttempts |-> DropLast(base_path, i) \o ".json"]

\* GetPotentialJsonNames with the truncated names added before the
\* duplicate and edited ones
GetPotentialJsonNames_TruncatedEarly(base_path) ==
    StandardNames(base_path) \o LivePhotoNames(base_path)
        \o TruncatedNames(base_path)
        \o DuplicateNames(base_path) \o EditedNames(base_path)

\* get_potential_json_names: the groups in the order the list is built
GetPotentialJsonNames(base_path) ==
    StandardNames(base_path) \o LivePhotoNames(base_path)
        \o DuplicateNames(base_path) \o EditedNames(base_path)
        \o TruncatedNames(base_path)

(***************************************************************************)
(* The state.                                                               *)
(***************************************************************************)
VARIABLES
    media,               \* the work tree: paths of the media files
    sidecars,            \* the work tree: .json path -> content of the file
    cond,                \* media path -> what fails on that file (a set)
    fstat,               \* media path -> [atime, mtime, bytes]
    dry_run,             \* self.dry_run
    stats,               \* self.stats
    files_without_json,  \* self.files_without_json
    files_with_warnings, \* self.files_with_warnings
    log,                 \* the messages logged, as a set
    pc,                  \* where main() is
    pending,             \* entries process_directory has not reached yet
    json_path,           \* what the last find_json_file call returned
    scanned,             \* whether that call started rglob('*.json')
    manual_idx,          \* print_stats: position in files_without_json
    dry_report           \* what the runs before this one printed

tree_vars == <<media, sidecars, cond>>
proc_vars == <<dry_run, stats, files_without_json, files_with_warnings, log>>
vars == <<media, sidecars, cond, fstat, dry_run, stats, files_without_json,
          files_with_warnings, log, pc, pending, json_path, scanned,
          manual_idx, dry_report>>

\* self.work_dir
WorkDir == "w"

\* find_json_file returning None
None == "<None>"

\* Path(json_path).exists()
Exists(path) == path \in DOMAIN sidecars

\* whether rglob over the work directory reaches the file
UnderWorkDir(path) ==
    PathParent(path) = WorkDir \/ IsAncestorDir(WorkDir, PathParent(path))

\* Step 1 of find_json_file: the first candidate that exists, None if none does
FirstExisting(names) ==
    LET hits == {i \in 1..Len(names) : Exists(names[i])}
    IN  IF hits = {} THEN None
        ELSE names[CHOOSE i \in hits : \A j \in hits : i <= j]

\* Step 2 of find_json_file: the .json files of the tree whose name is the name
\* of a candidate
ScanMatches(media_path) ==
    LET names == GetPotentialJsonNames(media_path)
        wanted == {PathName(names[i]) : i \in 1..Len(names)}
    IN  {j \in DOMAIN sidecars : UnderWorkDir(j) /\ PathName(j) \in wanted}

\* rglob lists a directory before its subdirectories and the entries of one
\* directory in the order of the file system: the matches that can come first
ScanFirst(media_path) ==
    LET matches == ScanMatches(media_path)
    IN  {j \in matches :
            \A k \in matches : ~IsAncestorDir(PathParent(k), PathParent(j))}

\* find_json_file: the possible outcomes [path, scanned, found_elsewhere]
FindJsonFile(media_path) ==
    LET here == FirstExisting(GetPotentialJsonNames(media_path))
    IN  IF here # None
        THEN {[path |-> here, scanned |-> FALSE, elsewhere |-> 0]}
        ELSE IF ScanFirst(media_path) # {}
        THEN {[path |-> j, scanned |-> TRUE, elsewhere |-> 1] :
                 j \in ScanFirst(media_path)}
        ELSE {[path |-> None, scanned |-> TRUE, elsewhere |-> 0]}

(***************************************************************************)
(* Sidecar content, file conditions, timestamps.                            *)
(***************************************************************************)

\* the epoch a well-formed sidecar holds, and the one typed at the prompt
SidecarEpoch == "1700000000"
ManualEpoch == "1609459200"

\* json.load of a sidecar: photoTakenTime.timestamp present and an integer,
\* present and not an integer, absent
ValidSidecar == [photoTakenTime |-> [timestamp |-> SidecarEpoch]]
NotIntSidecar == [photoTakenTime |-> [timestamp |-> "n/a"]]
NoFieldSidecar == [title |-> "IMG"]

\* what can fail on a media file: Image.open/img.save raise, os.utime raises,
\* Path.exists() raises on the candidate paths built from its name
Faults == {"exif_error", "utime_error", "probe_error"}

\* a media file nothing has touched
OriginalStat ==
    [atime |-> "original", mtime |-> "original", bytes |-> <<"original">>]

\* TimestampRaises without the conversion to an integer
TimestampRaises_FieldOnly(json_data) ==
    \/ "photoTakenTime" \notin DOMAIN json_data
    \/ "timestamp" \notin DOMAIN json_data.photoTakenTime

\* int(json_data['photoTakenTime']['timestamp']) raises KeyError or ValueError
TimestampRaises(json_data) ==
    \/ "photoTakenTime" \notin DOMAIN json_data
    \/ "timestamp" \notin DOMAIN json_data.photoTakenTime
    \/ json_data.photoTakenTime.timestamp \notin {SidecarEpoch, ManualEpoch}

\* str(e) of that exception
TimestampError(json_data) ==
    IF "photoTakenTime" \notin DOMAIN json_data THEN "'photoTakenTime'"
    ELSE "invalid literal for int() with base 10"

\* ExifWanted without the exception for HEIC
ExifWanted_Heic(media_path) ==
    Lower(PathSuffix(media_path)) \in IMAGE_FORMATS

\* process_media_file: "EXIF update except for HEIC images"
ExifWanted(media_path) ==
    /\ Lower(PathSuffix(media_path)) \in IMAGE_FORMATS
    /\ Lower(PathSuffix(media_path)) # ".heic"

\* update_image_exif: how the call ends.  "error" is the except branch, which
\* counts a warning and returns normally
UpdateImageExif(image_path, json_data) ==
    IF Lower(PathSuffix(image_path)) \notin IMAGE_FORMATS THEN "not_an_image"
    ELSE IF TimestampRaises(json_data) THEN "error"
    ELSE IF dry_run THEN "simulated"
    ELSE IF "exif_error" \in cond[image_path] THEN "error"
    ELSE "written"

\* str(e) in the except branch of update_image_exif
ExifError(image_path, json_data) ==
    IF TimestampRaises(json_data) THEN TimestampError(json_data)
    ELSE "cannot identify image file"

\* UpdateFileDates without the dry-run return
UpdateFileDates_NoDryRunCheck(file_path) ==
    IF "utime_error" \in cond[file_path] THEN "raised" ELSE "updated"

\* update_file_dates: how the call ends.  "raised" is os.utime raising OSError
UpdateFileDates(file_path) ==
    IF dry_run THEN "simulated"
    ELSE IF "utime_error" \in cond[file_path] THEN "raised"
    ELSE "updated"

\* the file after img.save(image_path, exif=exif_bytes)
StatAfterSave(st, timestamp) ==
    [st EXCEPT !.bytes = <<"exif", timestamp>>, !.mtime = "now"]

\* the file after os.utime(file_path, (timestamp, timestamp))
StatAfterUtime(st, timestamp) ==
    [st EXCEPT !.atime = timestamp, !.mtime = timestamp]

\* process_directory: the entries of rglob('*') with a known suffix
Recognized(paths) == {f \in paths : Lower(PathSuffix(f)) \in ALL_FORMATS}

\* MediaProcessor.__init__: self.stats
InitialStats ==
    [success |-> 0, warnings |-> 0, json_not_found |-> 0,
     ignored_with_exif |-> 0, json_found_in_other_dir |-> 0]

(***************************************************************************)
(* process_media_file on one entry of the walk, and the end of the walk.    *)
(***************************************************************************)

\* the try block of process_media_file once a sidecar was found
ApplySidecar(media_path, found, elsewhere) ==
    LET json_data == sidecars[found]
        exif == IF ExifWanted(media_path)
                THEN UpdateImageExif(media_path, json_data) ELSE "not_called"
        dates == IF TimestampRaises(json_data)
                 THEN "not_called" ELSE UpdateFileDates(media_path)
        raised == TimestampRaises(json_data) \/ dates = "raised"
        detail == IF TimestampRaises(json_data)
                  THEN TimestampError(json_data) ELSE "Operation not permitted"
        timestamp == json_data.photoTakenTime.timestamp
        saved == IF exif = "written"
                 THEN StatAfterSave(fstat[media_path], timestamp)
                 ELSE fstat[media_path]
        warned == IF exif = "error"
                  THEN Append(files_with_warnings,
                              <<media_path, ExifError(media_path, json_data)>>)
                  ELSE files_with_warnings
    IN  /\ fstat' = [fstat EXCEPT ![media_path] =
                        IF dates = "updated"
                        THEN StatAfterUtime(saved, timestamp) ELSE saved]
        /\ files_with_warnings' =
               IF raised THEN Append(warned, <<media_path, detail>>) ELSE warned
        /\ stats' = [stats EXCEPT
               !.json_found_in_other_dir = @ + elsewhere,
               !.warnings = @ + (IF exif = "error" THEN 1 ELSE 0)
                              + (IF raised THEN 1 ELSE 0),
               !.success = @ + (IF raised THEN 0 ELSE 1)]
        /\ log' = log
               \cup (IF exif = "simulated"
                     THEN {<<"simulated_exif", media_path>>} ELSE {})
               \cup (IF dates = "simulated"
                     THEN {<<"simulated_dates", media_path, timestamp>>} ELSE {})
               \cup (IF raised THEN {} ELSE {<<"success", media_path>>})
        /\ UNCHANGED files_without_json

\* the "if not json_path" branch of process_media_file
RecordNotFound(media_path) ==
    /\ stats' = [stats EXCEPT !.json_not_found = @ + 1]
    /\ files_without_json' = Append(files_without_json, media_path)
    /\ UNCHANGED <<fstat, files_with_warnings, log>>

\* One turn of the loop of process_directory: process_media_file on the next
\* entry rglob('*') yields.  An exception of Path.exists() in find_json_file
\* is caught nowhere and ends the program.
ProcessMediaFile(media_path) ==
    /\ pc = "walk"
    /\ media_path \in pending
    /\ pending' = pending \ {media_path}
    /\ IF "probe_error" \in cond[media_path]
       THEN /\ pc' = "aborted"
            /\ UNCHANGED <<fstat, stats, files_without_json,
                           files_with_warnings, log, json_path, scanned>>
       ELSE /\ \E r \in FindJsonFile(media_path) :
                  /\ json_path' = r.path
                  /\ scanned' = r.scanned
                  /\ IF r.path = None
                     THEN RecordNotFound(media_path)
                     ELSE ApplySidecar(media_path, r.path, r.elsewhere)
            /\ pc' = IF pending' = {} THEN "stats" ELSE "walk"
    /\ UNCHANGED <<tree_vars, dry_run, manual_idx, dry_report>>

(***************************************************************************)
(* print_stats.                                                             *)
(***************************************************************************)

\* what the operator can type at the date prompt: nothing, a date in the
\* format asked for, something else
DateInputs == {"", "2021-01-01 00:00", "yesterday"}

\* int(datetime.strptime(date_str, "%Y-%m-%d %H:%M").timestamp()) raises
\* ValueError
StrptimeRaises(date_str) == date_str # "2021-01-01 00:00"

\* print_stats up to the question: the counters and the lists are printed, and
\* the operator is asked only when files_without_json is not empty
PrintStats ==
    /\ pc = "stats"
    /\ \E reponse \in {"y", "n"} :
          IF files_without_json # << >> /\ Lower(reponse) = "y"
          THEN pc' = "manual" /\ manual_idx' = 1
          ELSE pc' = "done" /\ UNCHANGED manual_idx
    /\ UNCHANGED <<tree_vars, proc_vars, fstat, pending, json_path, scanned,
                   dry_report>>

\* one turn of the loop over files_without_json: the date prompt.  Only
\* ValueError is caught: an OSError of os.utime ends the program.
ManualEntry ==
    /\ pc = "manual"
    /\ \E date_str \in DateInputs :
          LET file == files_without_json[manual_idx]
              dates == IF date_str = "" \/ StrptimeRaises(date_str)
                       THEN "not_called" ELSE UpdateFileDates(file)
          IN  /\ fstat' = IF dates = "updated"
                          THEN [fstat EXCEPT ![file] = StatAfterUtime(@, ManualEpoch)]
                          ELSE fstat
              /\ log' = log
                    \cup (IF dates = "simulated"
                          THEN {<<"simulated_dates", file, ManualEpoch>>} ELSE {})
                    \cup (IF dates = "updated" THEN {<<"date_set", file>>} ELSE {})
                    \cup (IF date_str # "" /\ StrptimeRaises(date_str)
                          THEN {<<"invalid_date", file>>} ELSE {})
              /\ pc' = IF dates = "raised" THEN "aborted"
                       ELSE IF manual_idx = Len(files_without_json) THEN "done"
                       ELSE "manual"
    /\ manual_idx' = manual_idx + 1
    /\ UNCHANGED <<tree_vars, dry_run, stats, files_without_json,
                   files_with_warnings, pending, json_path, scanned, dry_report>>

\* main() once more on the same tree, without --dry-run, after a simulated run
\* that ended: a new MediaProcessor.  What the simulated run printed is kept.
MainAfterDryRun ==
    /\ pc = "done"
    /\ dry_run
    /\ dry_report = << >>
    /\ dry_report' = << [stats |-> stats,
                         files_with_warnings |-> files_with_warnings,
                         files_without_json |-> files_without_json] >>
    /\ dry_run' = FALSE
    /\ stats' = InitialStats
    /\ files_without_json' = << >>
    /\ files_with_warnings' = << >>
    /\ log' = {}
    /\ pending' = Recognized(media \cup DOMAIN sidecars)
    /\ pc' = "walk"
    /\ json_path' = None
    /\ scanned' = FALSE
    /\ manual_idx' = 0
    /\ UNCHANGED <<tree_vars, fstat>>

(***************************************************************************)
(* Work trees.                                                              *)
(***************************************************************************)

\* how many things are off in a work tree (a sidecar that is not the exact,
\* well-formed, co-located one; a fault of a media file)
MaxAnomalies == 2

\* how many .json files the tree of a single media file holds
MaxSidecars == 2

\* a tree with an image, a HEIC image, a video and a file that is no media
BatchMedia == {"w/a/p.JPG", "w/a/q.heic", "w/b/v.mp4"}
OtherFiles == {"w/a/notes.txt"}

\* where the sidecar of a media file is, and what it holds
SidecarChoices == {"exact", "not_int", "no_field", "elsewhere", "none"}

SidecarPath(media_path, choice) ==
    IF choice = "elsewhere"
    THEN WorkDir \o "/z/" \o PathName(media_path) \o ".json"
    ELSE media_path \o ".json"

SidecarContent(choice) ==
    IF choice = "not_int" THEN NotIntSidecar
    ELSE IF choice = "no_field" THEN NoFieldSidecar
    ELSE ValidSidecar

\* the .json files of the tree in which each media file m has choice[m]
TreeSidecars(choice) ==
    LET owners == {m \in DOMAIN choice : choice[m] # "none"}
        owner(j) == CHOOSE m \in owners : SidecarPath(m, choice[m]) = j
    IN  [j \in {SidecarPath(m, choice[m]) : m \in owners} |->
            SidecarContent(choice[owner(j)])]

Anomalies(choice, faults) ==
    Cardinality({m \in DOMAIN choice : choice[m] # "exact"})
        + Cardinality({mf \in (DOMAIN faults) \X Faults : mf[2] \in faults[mf[1]]})

\* media paths the name heuristics of find_json_file are tried on
LocateMedia ==
    {"w/a/IMG.jpg", "w/a/x.jpeg", "w/a/clip.mp4", "w/a/v.MP4", "w/a/IMG(1).jpg",
     "w/a/v(1).mp4", "w/a/IMG-modified.jpg", "w/a/IMG-modifié.jpg",
     "w/a(1)/x.jpg", "w/m.mp4(2)/v.mp4"}

\* the .json files a tree around media_path may hold: every candidate path,
\* and files of other directories named like the first candidates
LocateUniverse(media_path) ==
    LET names == GetPotentialJsonNames(media_path)
        first == StandardNames(media_path) \o LivePhotoNames(media_path)
    IN  {names[i] : i \in 1..Len(names)}
            \cup {WorkDir \o "/z/" \o PathName(first[i]) : i \in 1..Len(first)}
            \cup {WorkDir \o "/" \o PathName(media_path) \o ".json"}

\* the subsets of U with at most k elements
RECURSIVE SubsetsUpTo(_, _)
SubsetsUpTo(U, k) ==
    IF k = 0 THEN {{}}
    ELSE LET smaller == SubsetsUpTo(U, k - 1)
         IN  smaller \cup {s \cup {x} : s \in smaller, x \in U}

\* MediaProcessor.__init__ and the start of process_directory on the tree
Start ==
    /\ fstat = [f \in media |-> OriginalStat]
    /\ dry_run \in BOOLEAN
    /\ stats = InitialStats
    /\ files_without_json = << >>
    /\ files_with_warnings = << >>
    /\ log = {}
    /\ pending = Recognized(media \cup DOMAIN sidecars)
    /\ pc = "walk"
    /\ json_path = None
    /\ scanned = FALSE
    /\ manual_idx = 0
    /\ dry_report = << >>

\* the batch: the three media files, each with its sidecar and its faults
Init ==
    /\ media = BatchMedia \cup OtherFiles
    /\ \E choice \in [BatchMedia -> SidecarChoices],
          faults \in [BatchMedia -> SUBSET Faults] :
          /\ Anomalies(choice, faults) <= MaxAnomalies
          /\ sidecars = TreeSidecars(choice)
          /\ cond = [f \in media |-> IF f \in BatchMedia THEN faults[f] ELSE {}]
    /\ Start

\* one media file among well-formed .json files with the names the heuristics
\* look for
InitLocate ==
    /\ \E m \in LocateMedia :
          /\ media = {m}
          /\ \E present \in SubsetsUpTo(LocateUniverse(m), MaxSidecars) :
                sidecars = [j \in present |-> ValidSidecar]
    /\ cond = [f \in media |-> {}]
    /\ Start

Next ==
    \/ \E media_path \in pending : ProcessMediaFile(media_path)
    \/ PrintStats
    \/ ManualEntry

NextRerun ==
    \/ Next
    \/ MainAfterDryRun

\* one run of main() on a work tree
Spec == Init /\ [][Next]_vars

\* one run of main() on the tree of a single media file
SpecLocate == InitLocate /\ [][Next]_vars

\* a simulated run of main(), then a real one on the same tree
SpecRerun == Init /\ [][NextRerun]_vars

(***************************************************************************)
(* Properties of find_json_file, on the tree of a single media file         *)
(* (SpecLocate): once the entry is processed, json_path, scanned and        *)
(* stats.json_found_in_other_dir are what its one call left.                *)
(***************************************************************************)

\* the smallest index of names whose path exists, 0 if none does
FirstHit(names) ==
    LET hits == {i \in 1..Len(names) : Exists(names[i])}
    IN  IF hits = {} THEN 0 ELSE CHOOSE i \in hits : \A j \in hits : i <= j

\* the precedence order C1 states: a) and b), c) live-photo stills,
\* d) duplicate marker, e) edited suffix, f) truncations
C1_Precedence(m) ==
    StandardNames(m) \o LivePhotoNames(m) \o DuplicateNames(m)
        \o EditedNames(m) \o TruncatedNames(m)

\* C1: find_json_file returns the existing candidate that comes first in the
\* order a) to f), without starting the tree-wide scan and without counting a
\* match in another directory; in particular it returns <filename>.json
\* whenever that file exists.
C1_FirstMatchWins ==
    \A m \in media :
        pc # "walk" =>
            /\ FirstHit(C1_Precedence(m)) # 0 =>
                  /\ json_path = C1_Precedence(m)[FirstHit(C1_Precedence(m))]
                  /\ ~scanned
                  /\ stats.json_found_in_other_dir = 0
            /\ Exists(m \o ".json") =>
                  /\ json_path = m \o ".json"
                  /\ ~scanned
                  /\ stats.json_found_in_other_dir = 0

\* C1 witness: the exact sidecar exists beside a file of the same name in
\* another directory, and the exact one was returned without a scan
C1_Witness ==
    \E m \in media :
        /\ pc # "walk"
        /\ Exists(m \o ".json")
        /\ Exists(WorkDir \o "/z/" \o PathName(m) \o ".json")
        /\ json_path = m \o ".json"
        /\ ~scanned

\* the smallest k with the k-character truncation on disk, 0 if none is
FewestRemoved(m) == FirstHit([k \in 1..TruncationAttempts |-> DropLast(m, k) \o ".json"])

\* C2 as stated: without the exact sidecar and with a truncated-name variant
\* on disk, find_json_file returns the truncated variant with the fewest
\* characters removed.
C2_TruncatedVariantReturned ==
    \A m \in media :
        (pc # "walk" /\ ~Exists(m \o ".json") /\ FewestRemoved(m) # 0) =>
            json_path = DropLast(m, FewestRemoved(m)) \o ".json"

\* the candidates that are tried before the truncated names
C2_Earlier(m) ==
    StandardNames(m) \o LivePhotoNames(m) \o DuplicateNames(m) \o EditedNames(m)

\* C2 amended: when none of the candidates a) to e) exists and a
\* truncated-name variant does, find_json_file returns the truncated variant
\* with the fewest characters removed, without a scan.
C2_TruncatedAfterOthers ==
    \A m \in media :
        (pc # "walk" /\ FirstHit(C2_Earlier(m)) = 0 /\ FewestRemoved(m) # 0) =>
            /\ json_path = DropLast(m, FewestRemoved(m)) \o ".json"
            /\ ~scanned

\* C2 witness: two truncated variants exist, one and two characters shorter,
\* nothing else does, and the longer one was returned
C2_Witness ==
    \E m \in media :
        /\ pc # "walk"
        /\ FirstHit(C2_Earlier(m)) = 0
        /\ Exists(DropLast(m, 1) \o ".json")
        /\ Exists(DropLast(m, 2) \o ".json")
        /\ json_path = DropLast(m, 1) \o ".json"

\* <stem>.<ext>.json beside the media file
StillSidecar(m, ext) == PathJoin(PathParent(m), PathStem(m)) \o ext \o ".json"

\* C3 as stated: for a live-photo video whose own sidecar is absent and whose
\* still-image sidecar <stem>.HEIC.json or <stem>.JPG.json exists,
\* find_json_file returns that still-image sidecar.
C3_StillSidecarReturned ==
    \A m \in media :
        (/\ pc # "walk"
         /\ Upper(PathSuffix(m)) = ".MP4"
         /\ ~Exists(m \o ".json")
         /\ Exists(StillSidecar(m, ".HEIC")) \/ Exists(StillSidecar(m, ".JPG")))
        => /\ json_path \in {StillSidecar(m, ".HEIC"), StillSidecar(m, ".JPG")}
           /\ Exists(json_path)

\* the suffix of the path occurs in it once, at its end
SuffixOnce(m) ==
    \A i \in 1..Len(m) :
        OccursAt(m, PathSuffix(m), i) => i = Len(m) - Len(PathSuffix(m)) + 1

\* C3 amended: for a .mp4 entry (in any letter case) whose path holds its
\* extension once, when neither <name>.json nor <stem>.json exists and a
\* still-image sidecar does, find_json_file returns <stem>.HEIC.json if it
\* exists and <stem>.JPG.json otherwise, without a scan.
C3_StillAfterStandard ==
    \A m \in media :
        (/\ pc # "walk"
         /\ Upper(PathSuffix(m)) = ".MP4"
         /\ SuffixOnce(m)
         /\ ~Exists(m \o ".json")
         /\ ~Exists(StillSidecar(m, ""))
         /\ Exists(StillSidecar(m, ".HEIC")) \/ Exists(StillSidecar(m, ".JPG")))
        => /\ json_path = IF Exists(StillSidecar(m, ".HEIC"))
                          THEN StillSidecar(m, ".HEIC")
                          ELSE StillSidecar(m, ".JPG")
           /\ ~scanned

\* C3 witness: a video with a lower-case extension, only the .JPG still
\* sidecar and a truncated variant on disk, and the still sidecar returned
C3_Witness ==
    \E m \in media :
        /\ pc # "walk"
        /\ PathSuffix(m) = ".mp4"
        /\ ~Exists(m \o ".json")
        /\ ~Exists(StillSidecar(m, ""))
        /\ ~Exists(StillSidecar(m, ".HEIC"))
        /\ Exists(DropLast(m, 1) \o ".json")
        /\ json_path = StillSidecar(m, ".JPG")

\* C10 as stated: whenever find_json_file returns a sidecar of a directory
\* other than the media file's, json_found_in_other_dir was incremented by
\* one during the call.
C10_CrossDirectoryCounted ==
    \A m \in media :
        (pc # "walk" /\ json_path # None /\ PathParent(json_path) # PathParent(m))
            => stats.json_found_in_other_dir = 1

(***************************************************************************)
(* Properties of a run (Spec, SpecRerun, FairSpec).                         *)
(***************************************************************************)

\* the entries process_directory hands to process_media_file
Entries == Recognized(media \cup DOMAIN sidecars)

\* the step is process_media_file on m, returning normally
Processes(m) == m \in pending /\ m \notin pending' /\ pc' # "aborted"

\* the pairs the step appended to files_with_warnings
NewWarnings ==
    {files_with_warnings'[i] :
        i \in (Len(files_with_warnings) + 1)..Len(files_with_warnings')}

\* process_directory has returned
WalkDone == pc \in {"stats", "manual", "done"}

\* how many times each element occurs in a list
Occurrences(list) ==
    [x \in {list[i] : i \in DOMAIN list} |->
        Cardinality({i \in DOMAIN list : list[i] = x})]

\* C4 as stated: the real run ends process_directory with the counters the
\* simulated run on the same tree ended with, and with the same entries in
\* the two lists (compared without their order, which is that of the walk).
C4_DryRunClassifiesAlike ==
    (dry_report # << >> /\ WalkDone) =>
        /\ stats.success = dry_report[1].stats.success
        /\ stats.warnings = dry_report[1].stats.warnings
        /\ stats.json_not_found = dry_report[1].stats.json_not_found
        /\ stats.json_found_in_other_dir
               = dry_report[1].stats.json_found_in_other_dir
        /\ Occurrences(files_with_warnings)
               = Occurrences(dry_report[1].files_with_warnings)
        /\ Occurrences(files_without_json)
               = Occurrences(dry_report[1].files_without_json)

\* C5: in a simulated run every media file keeps its access time, its
\* modification time and its bytes, through process_media_file and through
\* the manual date entries of print_stats.
C5_DryRunMutatesNothing ==
    dry_run => \A f \in media : fstat[f] = OriginalStat

\* C5 witness: a simulated run that ended after a sidecar was applied to an
\* image and a valid date was typed for a file without sidecar
C5_Witness ==
    /\ dry_run
    /\ pc = "done"
    /\ \E f \in media : <<"simulated_exif", f>> \in log
    /\ \E f \in media : <<"simulated_dates", f, SidecarEpoch>> \in log
    /\ \E f \in media : <<"simulated_dates", f, ManualEpoch>> \in log

\* a sidecar without a usable photoTakenTime.timestamp
C6_Unusable(json_data) == json_data \in {NoFieldSidecar, NotIntSidecar}

\* C6: process_media_file on an entry whose sidecar has no usable timestamp
\* counts a warning, lists the entry in files_with_warnings, counts no
\* success and leaves the file's times and bytes as they were.
C6_MalformedSidecarWarns ==
    [][\A m \in media :
          (/\ Processes(m)
           /\ json_path' # None
           /\ C6_Unusable(sidecars[json_path']))
          => /\ stats'.warnings > stats.warnings
             /\ stats'.success = stats.success
             /\ \E w \in NewWarnings : w[1] = m
             /\ fstat'[m] = fstat[m]]_vars

\* C6 witness: a real run has processed an image whose sidecar lacks the
\* field and a warning is counted
C6_Witness ==
    /\ ~dry_run
    /\ json_path # None
    /\ pc # "aborted"
    /\ sidecars[json_path] = NoFieldSidecar
    /\ \E i \in DOMAIN files_with_warnings :
          /\ files_with_warnings[i][1] \o ".json" = json_path
          /\ ExifWanted(files_with_warnings[i][1])
    /\ stats.warnings > 0

\* C7 as stated: once process_directory has returned, each entry has added
\* one to exactly one of success, warnings and json_not_found, and is listed
\* at most once in files_with_warnings.
C7_OneOutcomePerEntry ==
    WalkDone =>
        /\ stats.success + stats.warnings + stats.json_not_found
               = Cardinality(Entries)
        /\ \A i, j \in DOMAIN files_with_warnings :
              files_with_warnings[i][1] = files_with_warnings[j][1] => i = j

\* a real run applies a sidecar with a valid timestamp to m
C8_Applies(m) ==
    /\ Processes(m)
    /\ ~dry_run
    /\ json_path' # None
    /\ sidecars[json_path'] = ValidSidecar

\* m is an image other than HEIC
C8_EmbedsExif(m) ==
    LET ext == Lower(PathSuffix(m))
    IN  ext \in IMAGE_FORMATS /\ ext # ".heic"

C8_TimesSet(m) ==
    fstat'[m].atime = SidecarEpoch /\ fstat'[m].mtime = SidecarEpoch

\* the failure of the embedding is listed for m
C8_ExifWarned(m) == <<m, "cannot identify image file">> \in NewWarnings

\* C8 as stated: in a real run the failure of the EXIF embedding is recorded
\* as a warning and the times are still set to T; for HEIC and video no
\* embedding is attempted and the times are set to T.
C8_TimesAlwaysSet ==
    [][\A m \in media :
          C8_Applies(m) =>
             /\ (C8_EmbedsExif(m) /\ "exif_error" \in cond[m]) =>
                   /\ C8_ExifWarned(m)
                   /\ stats'.warnings > stats.warnings
                   /\ C8_TimesSet(m)
             /\ ~C8_EmbedsExif(m) =>
                   /\ fstat'[m].bytes = fstat[m].bytes
                   /\ ~C8_ExifWarned(m)
                   /\ C8_TimesSet(m)]_vars

\* what os.utime decides: the times set to T and a success counted, or, when
\* it raises, the times left alone and one more warning instead of a success
C8_DatesStep(m) ==
    IF "utime_error" \in cond[m]
    THEN /\ fstat'[m].atime = fstat[m].atime
         /\ fstat'[m].mtime = fstat[m].mtime
         /\ <<m, "Operation not permitted">> \in NewWarnings
         /\ stats'.success = stats.success
    ELSE /\ C8_TimesSet(m)
         /\ stats'.success = stats.success + 1

\* C8 amended: in a real run the failure of the EXIF embedding is recorded as
\* a warning and does not keep os.utime from being called; for HEIC and video
\* no embedding is attempted.  The times are set to T unless os.utime itself
\* raises on the file: then they are left as they were and one more warning
\* is recorded instead of a success.
C8_ExifFailureKeepsDates ==
    [][\A m \in media :
          C8_Applies(m) =>
             /\ (C8_EmbedsExif(m) /\ "exif_error" \in cond[m]) =>
                   /\ C8_ExifWarned(m)
                   /\ stats'.warnings > stats.warnings
                   /\ fstat'[m].bytes = fstat[m].bytes
                   /\ C8_DatesStep(m)
             /\ ~C8_EmbedsExif(m) =>
                   /\ fstat'[m].bytes = fstat[m].bytes
                   /\ ~C8_ExifWarned(m)
                   /\ C8_DatesStep(m)]_vars

\* C8 witness: a real run has ended in which the embedding failed on the
\* image, whose times are T all the same, and the times of a HEIC file on
\* which the embedding would fail are T with no warning for it
C8_Witness ==
    /\ ~dry_run
    /\ pc = "done"
    /\ \E m \in media :
          /\ C8_EmbedsExif(m)
          /\ "exif_error" \in cond[m]
          /\ \E i \in DOMAIN files_with_warnings :
                files_with_warnings[i] = <<m, "cannot identify image file">>
          /\ fstat[m].mtime = SidecarEpoch
          /\ fstat[m].atime = SidecarEpoch
    /\ \E h \in media :
          /\ Lower(PathSuffix(h)) = ".heic"
          /\ "exif_error" \in cond[h]
          /\ fstat[h] = [atime |-> SidecarEpoch, mtime |-> SidecarEpoch,
                         bytes |-> <<"original">>]
          /\ \A i \in DOMAIN files_with_warnings : files_with_warnings[i][1] # h

\* process_media_file has recorded an outcome for m
C9_HasOutcome(m) ==
    \/ <<"success", m>> \in log
    \/ \E i \in DOMAIN files_without_json : files_without_json[i] = m
    \/ \E i \in DOMAIN files_with_warnings : files_with_warnings[i][1] = m

\* C9 as stated: process_directory reaches every entry and drives it to
\* NotFound, Success or WarningError, whatever failed on the way: when the
\* program has ended, no entry is left without an outcome.
C9_EveryEntryGetsAnOutcome ==
    pc \in {"done", "aborted"} =>
        \A m \in Entries : m \notin pending /\ C9_HasOutcome(m)

====
